---- MODULE Spec2Model ----
(***************************************************************************)
(* A model of the IP strategist web application                            *)
(* (src/src/ip_strategist/app.py): the process-wide configuration chosen   *)
(* at start-up, the sleep-based rate limiter, the direct Gemini client,    *)
(* the /chat, /analyze and /health request handlers run by concurrent      *)
(* request threads, the crew of agents and tasks that /analyze builds, and *)
(* the output refiner of the alternate implementation kept in the second   *)
(* half of app.py.                                                         *)
(*                                                                         *)
(* Python text is modelled by TLA+ strings: \o is +, SubSeq is slicing,    *)
(* Len is len.  A Python value that may be None is a sequence of at most   *)
(* one string: << >> is None, <<s>> is the string s.                       *)
(***************************************************************************)
EXTENDS Integers, Sequences, FiniteSets, TLC

VARIABLES
    CREWAI_AVAILABLE,    \* app.py:26/30  did "from crewai import ..." succeed
    GEMINI_KEY,          \* app.py:33     os.getenv('GOOGLE_API_KEY')
    LLM,                 \* app.py:36/55  TRUE iff LLM is not None
    LAST_REQUEST_TIME,   \* app.py:68     shared timestamp of the rate limiter
    now,                 \* time.time(), whole seconds
    pc,                  \* per request: position of its handler thread
    endpoint,            \* per request: "chat" or "analyze" ("" before arrival)
    body,                \* per request: request.json or {}
    readAt,              \* per request: time rate_limit() read LAST_REQUEST_TIME
    seen,                \* per request: requests that had stamped when it read
    wake,                \* per request: end of its time.sleep(wait_time)
    stampAt,             \* per request: value it stored in LAST_REQUEST_TIME
    callAt,              \* per request: time its outbound call started
    sent,                \* per request: what the outbound call was and met
    resp,                \* per request: the HTTP response
    lastRead,            \* per request: the LAST_REQUEST_TIME its rate_limit() read
    count,               \* per request: rate_limit() calls, sleeps, outbound calls
    api_fn,              \* pure-function harness: which function was applied
    api_o,               \* pure-function harness: the provider outcome
    api_raw,             \* pure-function harness: raw_text given to refine_output
    api_ret              \* pure-function harness: what the function did

cfgvars == <<CREWAI_AVAILABLE, GEMINI_KEY, LLM>>
reqvars ==
    <<pc, endpoint, body, readAt, seen, wake, stampAt, callAt, sent, resp, lastRead,
      count>>
apivars == <<api_fn, api_o, api_raw, api_ret>>
vars == <<cfgvars, LAST_REQUEST_TIME, now, reqvars, apivars>>

----------------------------------------------------------------------------
(* Bounds of the model.                                                    *)

NumRequests == 2          \* request threads in flight
MaxTime == 35             \* the clock stops here
TickStep == 5             \* seconds between two readings of the clock
PadLen == 1               \* how far the long exception text exceeds ERROR_CUT

----------------------------------------------------------------------------
(* Python strings.                                                         *)

None == << >>
Some(s) == <<s>>

\* bool(v) of an optional string: None and '' are falsy
Truthy(v) == v # None /\ v[1] # ""

\* sub in s
Contains(sub, s) ==
    \E i \in 1..(Len(s) - Len(sub) + 1) : SubSeq(s, i, i + Len(sub) - 1) = sub

\* s.startswith(p)
StartsWith(s, p) == Len(s) >= Len(p) /\ SubSeq(s, 1, Len(p)) = p

\* s[:n]
Prefix(s, n) == SubSeq(s, 1, IF Len(s) < n THEN Len(s) ELSE n)

UpperCase == "ABCDEFGHIJKLMNOPQRSTUVWXYZ"
LowerCase == "abcdefghijklmnopqrstuvwxyz"

LowerChar(c) ==
    IF \E i \in 1..26 : SubSeq(UpperCase, i, i) = c
    THEN LET i == CHOOSE j \in 1..26 : SubSeq(UpperCase, j, j) = c
         IN  SubSeq(LowerCase, i, i)
    ELSE c

RECURSIVE Lower(_)
\* s.lower()
Lower(s) ==
    IF Len(s) <= 1 THEN LowerChar(s)
    ELSE LET h == Len(s) \div 2
         IN  Lower(SubSeq(s, 1, h)) \o Lower(SubSeq(s, h + 1, Len(s)))

IsSpace(c) == c \in {" ", "\n", "\t", "\r"}

RECURSIVE LStrip(_)
LStrip(s) == IF s # "" /\ IsSpace(SubSeq(s, 1, 1)) THEN LStrip(Tail(s)) ELSE s

RECURSIVE RStrip(_)
RStrip(s) ==
    IF s # "" /\ IsSpace(SubSeq(s, Len(s), Len(s)))
    THEN RStrip(SubSeq(s, 1, Len(s) - 1))
    ELSE s

\* s.strip()
Strip(s) == RStrip(LStrip(s))

RECURSIVE Join(_, _)
\* sep.join(list)
Join(sep, list) ==
    IF list = << >> THEN ""
    ELSE IF Len(list) = 1 THEN list[1]
    ELSE list[1] \o sep \o Join(sep, Tail(list))

RECURSIVE Repeat(_, _)
\* c * n
Repeat(c, n) ==
    IF n = 0 THEN ""
    ELSE IF n = 1 THEN c
    ELSE Repeat(c, n \div 2) \o Repeat(c, n - (n \div 2))

----------------------------------------------------------------------------
(* Program constants.                                                      *)

MODEL_NAME == "gemini-2.5-flash-lite"
MIN_REQUEST_INTERVAL == 15
ERROR_CUT == 200
MAX_ITER == 2

\* "(!)" stands for the warning sign U+26A0 U+FE0F that opens the message
RATE_LIMIT_MSG ==
    "(!) Rate limit exceeded. Please wait a few minutes and try again. "
    \o "Check your quota at: https://ai.dev/usage"

required_fields ==
    << "technology_description", "trademark_name", "market_description",
       "estimated_revenue", "budget", "timeline", "competitor_list" >>

----------------------------------------------------------------------------
(* Results of Python calls: a returned string or a raised exception.       *)

Ret(s) == [raised |-> FALSE, v |-> s]
Raise(s) == [raised |-> TRUE, v |-> s]

(* What one requests.post to the provider can meet.  exc: the call raised  *)
(* (timeout, connection error) with text excText.  Otherwise a response    *)
(* with a status code and a body of some shape:                            *)
(*   "text"        200 body with candidates[0].content.parts[0].text = text*)
(*   "nocand"      JSON body without the key 'candidates'                  *)
(*   "message"     JSON error body {"error": {"message": message}}        *)
(*   "nomessage"   JSON error body without error.message                   *)
(*   "nojson"      body that is not JSON                                   *)
Answer(status, shape, text) ==
    [exc |-> FALSE, excText |-> "", status |-> status, shape |-> shape, text |-> text]
Failure(excText) ==
    [exc |-> TRUE, excText |-> excText, status |-> 0, shape |-> "", text |-> ""]

KEY_ERROR == "'candidates'"
JSON_ERROR == "Expecting value: line 1 column 1 (char 0)"
TIMEOUT_ERROR == "Read timed out. (read timeout=30)"

Outcomes ==
    { Answer(200, "text", "Patent first."),
      Answer(200, "text", "  Patent first.\n"),
      Answer(200, "text", ""),
      Answer(200, "text", "No API Error here"),
      Answer(200, "nocand", ""),
      Answer(200, "nojson", ""),
      Answer(429, "message", "Resource has been exhausted"),
      Answer(429, "nojson", ""),
      Answer(400, "message", "API key not valid"),
      Answer(500, "message", ""),
      Answer(500, "nomessage", ""),
      Answer(503, "nojson", ""),
      Failure(TIMEOUT_ERROR),
      Failure("Connection refused") }

\* response.json() of the provider's answer o
ResponseJson(o) == IF o.shape = "nojson" THEN Raise(JSON_ERROR) ELSE Ret("")

\* CallGeminiTry with the 429 branch lost: 429 is handled like any other error
CallGeminiTry_no_429(o) ==
    IF o.exc THEN Raise(o.excText)
    ELSE IF o.status = 200 THEN
        IF ResponseJson(o).raised THEN ResponseJson(o)
        ELSE IF o.shape # "text" THEN Raise(KEY_ERROR)
        ELSE Ret(o.text)
    ELSE IF ResponseJson(o).raised THEN ResponseJson(o)
    ELSE Ret("API Error: " \o (IF o.shape = "message" THEN o.text ELSE "Unknown error"))

\* the statements inside call_gemini_api's try block (app.py:84-101)
CallGeminiTry(o) ==
    IF o.exc THEN Raise(o.excText)
    ELSE IF o.status = 200 THEN
        IF ResponseJson(o).raised THEN ResponseJson(o)
        ELSE IF o.shape # "text" THEN Raise(KEY_ERROR)
        ELSE Ret(o.text)
    ELSE IF o.status = 429 THEN Ret(RATE_LIMIT_MSG)
    ELSE IF ResponseJson(o).raised THEN ResponseJson(o)
    ELSE Ret("API Error: " \o (IF o.shape = "message" THEN o.text ELSE "Unknown error"))

\* call_gemini_api without its except clause
call_gemini_api_no_except(o) == CallGeminiTry(o)

\* call_gemini_api with its "except Exception" (app.py:102-104)
call_gemini_api(o) ==
    LET r == CallGeminiTry(o)
    IN  IF r.raised THEN Ret("Error: " \o r.v) ELSE r

\* the alternate implementation's try block (app.py:489-508): a non-JSON error
\* body is caught by the inner handler
CallGeminiTry2(o) ==
    IF o.exc THEN Raise(o.excText)
    ELSE IF o.status = 200 THEN
        IF ResponseJson(o).raised THEN ResponseJson(o)
        ELSE IF o.shape # "text" THEN Raise(KEY_ERROR)
        ELSE Ret(o.text)
    ELSE IF o.status = 429 THEN Ret(RATE_LIMIT_MSG)
    ELSE IF ResponseJson(o).raised THEN Ret("API Error: " \o ToString(o.status))
    ELSE Ret("API Error: " \o (IF o.shape = "message" THEN o.text ELSE "Unknown error"))

\* the alternate implementation's call_gemini_api (app.py:486-511)
call_gemini_api_2(o) ==
    LET r == CallGeminiTry2(o)
    IN  IF r.raised THEN Ret("Error: " \o r.v) ELSE r

\* refine_output (app.py:516-548); o is what its one provider call meets
refine_output(key, raw_text, o) ==
    IF ~Truthy(key) THEN Ret(raw_text)
    ELSE LET r == call_gemini_api_2(o)
         IN  IF r.raised THEN r
             ELSE IF r.v = "" \/ Contains("API Error", r.v)
                               \/ Contains("Rate limit exceeded", r.v)
                  THEN Ret(Strip(raw_text))
                  ELSE Ret(Strip(r.v))

----------------------------------------------------------------------------
(* Process start-up (app.py:23-65).                                        *)

Keys == { None, Some(""), Some("sk-test"), Some("AIzaSyTest") }

\* init_llm without the test of the key's prefix
init_llm_no_prefix_check(key, crewai, ctorOk) ==
    IF ~Truthy(key) THEN FALSE
    ELSE IF ~crewai THEN FALSE
    ELSE ctorOk

\* init_llm: the value LLM has after it ran, TRUE for "not None".  ctorOk says
\* whether the CrewLLM constructor returns; with the crewai import failed the
\* name CrewLLM is unbound and the call raises NameError inside the try.
init_llm(key, crewai, ctorOk) ==
    IF ~Truthy(key) THEN FALSE
    ELSE IF ~StartsWith(key[1], "AIza") THEN FALSE
    ELSE IF ~crewai THEN FALSE
    ELSE ctorOk

----------------------------------------------------------------------------
(* Requests and responses.                                                 *)

Requests == 1..NumRequests

Range(f) == { f[i] : i \in DOMAIN f }

\* a JSON object whose keys are `present`, those in `empty` with value ''
Body(present, empty) == [k \in present |-> IF k \in empty THEN "" ELSE "v"]
EmptyBody == Body({}, {})

\* data.get(k)
Get(data, k) == IF k \in DOMAIN data THEN Some(data[k]) ELSE None
\* data.get(k, default)
GetOr(data, k, default) == IF k \in DOMAIN data THEN data[k] ELSE default

ChatBodies ==
    { EmptyBody, Body({"message"}, {"message"}), Body({"message"}, {}),
      [message |-> "  "] }

AnalyzeBodies ==
    { EmptyBody,
      Body(Range(required_fields), {}),
      Body(Range(required_fields) \ {"budget"}, {}),
      Body(Range(required_fields) \ {"trademark_name"}, {"timeline"}) }

\* jsonify(...) with its status: `key` is the member that carries the text
\* (response, result or error); success and model_used may be absent, and no
\* response of app.py:264-383 has a member "method"
Response(status, success, key, text, model) ==
    [status |-> status, success |-> success, key |-> key, text |-> text,
     model_used |-> model, method |-> None]
NoResponse == Response(0, None, "", "", None)

PyTrue == Some("true")
PyFalse == Some("false")

\* what the agent pipeline (create_agents, Crew, crew.kickoff) can do: return
\* a result or raise an exception with some text
PipelineOutcomes ==
    { Ret("IP strategy report"),
      Raise("litellm.RateLimitError: 429 Too Many Requests"),
      Raise("You exceeded your current Quota"),
      Raise("RESOURCE_EXHAUSTED"),
      Raise("Connection reset by peer"),
      Raise(Repeat("x", ERROR_CUT + PadLen)),
      Raise(Repeat("x", ERROR_CUT + PadLen) \o " quota") }

\* the provider outcomes the /chat handler tells apart
ChatOutcomes ==
    { Answer(200, "text", "Patent first."),
      Answer(200, "text", ""),
      Answer(200, "nocand", ""),
      Answer(429, "message", "Resource has been exhausted"),
      Answer(500, "message", "Internal error"),
      Failure(TIMEOUT_ERROR) }

\* Crew(agents=..., tasks=..., process=...)
Crew(agents, tasks, process) == [agents |-> agents, tasks |-> tasks, process |-> process]
NoCrew == Crew(<< >>, << >>, "")

NoSent == [kind |-> "none", o |-> Failure(""), p |-> Ret(""), crew |-> NoCrew, ran |-> << >>]

\* what a request thread has done so far: calls of rate_limit(), calls of
\* time.sleep(), outbound calls (provider call of /chat, pipeline run of /analyze)
NoCount == [limits |-> 0, sleeps |-> 0, calls |-> 0]

----------------------------------------------------------------------------
(* The handlers, as functions of what they read.                           *)

\* health, app.py:256-262: the JSON it returns, with status 200
health(crewai, llm) ==
    [status |-> 200, key |-> "status", text |-> "healthy",
     crewai_available |-> crewai, llm_available |-> llm, model |-> MODEL_NAME,
     quota_info |-> "Check usage at: https://ai.dev/usage"]

\* chat_reject without the test of the message
chat_reject_no_message_check(key, data) ==
    IF ~Truthy(key)
    THEN Response(500, PyFalse, "error",
                  "AI system not available. Please check API key configuration.", None)
    ELSE NoResponse

\* chat, app.py:267-277: the response that rejects the request, or NoResponse
chat_reject(key, data) ==
    IF ~Truthy(key)
    THEN Response(500, PyFalse, "error",
                  "AI system not available. Please check API key configuration.", None)
    ELSE IF GetOr(data, "message", "") = ""
    THEN Response(400, None, "error", "No message provided", None)
    ELSE NoResponse

\* chat_respond without the test "if response:"
chat_respond_no_empty_check(o) ==
    LET r == call_gemini_api(o)
    IN  IF r.raised
        THEN Response(500, PyFalse, "error", "Error: " \o r.v, None)
        ELSE Response(200, PyTrue, "response", r.v, Some(MODEL_NAME))

\* chat, app.py:281-309: the response once call_gemini_api met outcome o
chat_respond(o) ==
    LET r == call_gemini_api(o)
    IN  IF r.raised
        THEN Response(500, PyFalse, "error", "Error: " \o r.v, None)
        ELSE IF r.v # ""
        THEN Response(200, PyTrue, "response", r.v, Some(MODEL_NAME))
        ELSE Response(500, PyFalse, "error", "Failed to get response from AI", None)

\* missing = [f for f in required_fields if not data.get(f)]  (app.py:330)
Missing(data) == SelectSeq(required_fields, LAMBDA f : ~Truthy(Get(data, f)))

\* analyze_ip, app.py:314-335
analyze_reject(crewai, llm, data) ==
    IF ~crewai \/ ~llm
    THEN Response(500, PyFalse, "error",
                  "AI system not available. Please check your configuration "
                  \o "and API quota at https://ai.dev/usage", None)
    ELSE IF Missing(data) # << >>
    THEN Response(400, None, "error", "Missing fields: " \o Join(", ", Missing(data)), None)
    ELSE NoResponse

\* the keys of create_tasks with one that validation does not know
TaskKeys_unvalidated ==
    << "technology_description", "trademark_name", "market_description",
       "technology_description", "market_description", "estimated_revenue",
       "industry" >>

\* the request keys create_tasks reads with data[...]  (app.py:162-195)
TaskKeys ==
    << "technology_description", "trademark_name", "market_description",
       "technology_description", "market_description", "estimated_revenue" >>

\* create_tasks (app.py:156-246): KeyError on the first key that is absent
create_tasks(data) ==
    LET absent == SelectSeq(TaskKeys, LAMBDA k : k \notin DOMAIN data)
    IN  IF absent # << >> THEN Raise("'" \o absent[1] \o "'") ELSE Ret("")

\* Agent(role=..., llm=llm, max_iter=2, allow_delegation=False)
Agent(role, llm) ==
    [role |-> role, llm |-> llm, max_iter |-> MAX_ITER, allow_delegation |-> FALSE]

\* create_agents (app.py:106-154): the list it returns
create_agents(llm) ==
    << Agent("Senior Patent Analyst", llm),
       Agent("Senior Trademark Attorney", llm),
       Agent("IP Valuation Director", llm) >>

\* Task(description=..., agent=agent): the heading of the prompt and its agent
Task(heading, agent) == [heading |-> heading, agent |-> agent]

\* the task list with the trademark and valuation tasks in each other's place
task_list_swapped(agents) ==
    << Task("ANALYZE PATENTABILITY FOR", agents[1]),
       Task("ESTIMATE IP VALUE FOR", agents[3]),
       Task("CHECK TRADEMARK AVAILABILITY FOR", agents[2]) >>

\* create_tasks (app.py:158-246): the list it returns; agents is unpacked into
\* patent_agent, trademark_agent, valuation_agent
task_list(agents) ==
    << Task("ANALYZE PATENTABILITY FOR", agents[1]),
       Task("CHECK TRADEMARK AVAILABILITY FOR", agents[2]),
       Task("ESTIMATE IP VALUE FOR", agents[3]) >>

\* analyze_ip, app.py:344-352: the crew it builds, NoCrew when create_tasks
\* raised
build_crew(llm, data) ==
    IF create_tasks(data).raised THEN NoCrew
    ELSE Crew(create_agents(llm), task_list(create_agents(llm)), "sequential")

\* crew.kickoff() (app.py:355) under Process.sequential: the framework starts
\* the tasks one after the other in the order of the list; `started` is how
\* many it started before it returned or raised
kickoff(crew, started) == SubSeq(crew.tasks, 1, started)

\* how many tasks can have been started when the pipeline did p: all of them
\* when it returned, any number when it raised
Started(crew, p) ==
    IF p.raised THEN 0..Len(crew.tasks) ELSE {Len(crew.tasks)}

\* the try block of analyze_ip (app.py:339-365); p is what the framework does
analyze_try(data, p) ==
    IF create_tasks(data).raised THEN create_tasks(data) ELSE p

\* error_str is a quota error  (app.py:374)
IsQuotaError(error_str) ==
    \/ Contains("429", error_str)
    \/ Contains("quota", Lower(error_str))
    \/ Contains("RESOURCE_EXHAUSTED", error_str)

QUOTA_MSG ==
    "API quota exceeded. Please wait a few minutes and try again. "
    \o "Check your usage at: https://ai.dev/usage"

\* analyze_ip, app.py:339-383: the response once the pipeline did p
analyze_respond(data, p) ==
    LET r == analyze_try(data, p)
    IN  IF ~r.raised
        THEN Response(200, PyTrue, "result", r.v, Some(MODEL_NAME))
        ELSE IF IsQuotaError(r.v)
        THEN Response(429, PyFalse, "error", QUOTA_MSG, None)
        ELSE Response(500, PyFalse, "error",
                      "Analysis failed: " \o Prefix(r.v, ERROR_CUT), None)

----------------------------------------------------------------------------
(* The server.  Each request is handled by a thread of its own; threads    *)
(* interleave at the reads and writes of the shared timestamp and of the   *)
(* clock.  A slot of Requests holds one request from its arrival to the    *)
(* delivery of its response and is then free for the next one.             *)

StartTime == MIN_REQUEST_INTERVAL

ApiIdle ==
    /\ api_fn = "none"
    /\ api_o = Failure("")
    /\ api_raw = ""
    /\ api_ret = Ret("")

Init ==
    /\ CREWAI_AVAILABLE \in BOOLEAN
    /\ GEMINI_KEY \in Keys
    /\ LLM \in { init_llm(GEMINI_KEY, CREWAI_AVAILABLE, ok) : ok \in BOOLEAN }
    /\ LAST_REQUEST_TIME = 0
    /\ now = StartTime
    /\ pc = [r \in Requests |-> "new"]
    /\ endpoint = [r \in Requests |-> ""]
    /\ body = [r \in Requests |-> EmptyBody]
    /\ readAt = [r \in Requests |-> 0]
    /\ seen = [r \in Requests |-> {}]
    /\ wake = [r \in Requests |-> 0]
    /\ stampAt = [r \in Requests |-> 0]
    /\ callAt = [r \in Requests |-> 0]
    /\ sent = [r \in Requests |-> NoSent]
    /\ resp = [r \in Requests |-> NoResponse]
    /\ lastRead = [r \in Requests |-> 0]
    /\ count = [r \in Requests |-> NoCount]
    /\ ApiIdle

\* request q has executed LAST_REQUEST_TIME = time.time()
Stamped(q) == pc[q] = "call" \/ (pc[q] = "done" /\ sent[q].kind # "none")

\* a request arrives and its handler runs up to rate_limit() or to a rejection
Arrive(r, ep, data, rejection) ==
    /\ pc[r] = "new"
    /\ endpoint' = [endpoint EXCEPT ![r] = ep]
    /\ body' = [body EXCEPT ![r] = data]
    /\ IF rejection = NoResponse
       THEN /\ pc' = [pc EXCEPT ![r] = "rate_limit"]
            /\ resp' = resp
       ELSE /\ pc' = [pc EXCEPT ![r] = "done"]
            /\ resp' = [resp EXCEPT ![r] = rejection]
    /\ UNCHANGED <<cfgvars, LAST_REQUEST_TIME, now, readAt, seen, wake, stampAt,
                   callAt, sent, lastRead, count, apivars>>

\* POST /chat, app.py:267-277
ChatArrive(r, bodies) ==
    \E data \in bodies : Arrive(r, "chat", data, chat_reject(GEMINI_KEY, data))

\* POST /analyze, app.py:314-335
AnalyzeArrive(r, bodies) ==
    \E data \in bodies :
        Arrive(r, "analyze", data, analyze_reject(CREWAI_AVAILABLE, LLM, data))

\* GET /health, app.py:253-262
Health(r) ==
    /\ pc[r] = "new"
    /\ endpoint' = [endpoint EXCEPT ![r] = "health"]
    /\ resp' = [resp EXCEPT ![r] = health(CREWAI_AVAILABLE, LLM)]
    /\ pc' = [pc EXCEPT ![r] = "done"]
    /\ UNCHANGED <<cfgvars, LAST_REQUEST_TIME, now, body, readAt, seen, wake, stampAt,
                   callAt, sent, lastRead, count, apivars>>

\* wait_time sleeping for the elapsed time instead of the remaining time
wait_time_elapsed(elapsed) ==
    IF elapsed < MIN_REQUEST_INTERVAL THEN elapsed ELSE 0

\* wait_time sleeping the whole interval whatever has elapsed
wait_time_whole(elapsed) ==
    IF elapsed < MIN_REQUEST_INTERVAL THEN MIN_REQUEST_INTERVAL ELSE 0

\* wait_time sleeping the interval on top of what has elapsed
wait_time_added(elapsed) ==
    IF elapsed < MIN_REQUEST_INTERVAL THEN MIN_REQUEST_INTERVAL + elapsed ELSE 0

\* rate_limit, app.py:75-76: the time to sleep, 0 for no call of time.sleep
wait_time(elapsed) ==
    IF elapsed < MIN_REQUEST_INTERVAL THEN MIN_REQUEST_INTERVAL - elapsed ELSE 0

\* rate_limit, app.py:74-78: read the clock and the shared timestamp, and
\* start to sleep when less than the interval has elapsed
RateLimitRead(r) ==
    /\ pc[r] = "rate_limit"
    /\ LET elapsed == now - LAST_REQUEST_TIME
       IN  IF wait_time(elapsed) > 0
           THEN /\ wake' = [wake EXCEPT ![r] = now + wait_time(elapsed)]
                /\ pc' = [pc EXCEPT ![r] = "sleep"]
           ELSE /\ wake' = wake
                /\ pc' = [pc EXCEPT ![r] = "stamp"]
    /\ readAt' = [readAt EXCEPT ![r] = now]
    /\ seen' = [seen EXCEPT ![r] = { q \in Requests : Stamped(q) }]
    /\ lastRead' = [lastRead EXCEPT ![r] = LAST_REQUEST_TIME]
    /\ count' = [count EXCEPT ![r].limits = @ + 1,
                              ![r].sleeps = @ + (IF wait_time(now - LAST_REQUEST_TIME) > 0
                                                 THEN 1 ELSE 0)]
    /\ UNCHANGED <<cfgvars, LAST_REQUEST_TIME, now, endpoint, body, stampAt, callAt,
                   sent, resp, apivars>>

\* time.sleep(wait_time) returns, app.py:78
RateLimitWake(r) ==
    /\ pc[r] = "sleep"
    /\ now >= wake[r]
    /\ pc' = [pc EXCEPT ![r] = "stamp"]
    /\ UNCHANGED <<cfgvars, LAST_REQUEST_TIME, now, endpoint, body, readAt, seen, wake,
                   stampAt, callAt, sent, resp, lastRead, count, apivars>>

\* the stamp taken from the clock reading of app.py:74 instead of a new one
stamp_time_of_read(r) == readAt[r]

\* the value rate_limit stores: a new reading of time.time(), app.py:79
stamp_time(r) == now

\* LAST_REQUEST_TIME = time.time(), app.py:79
RateLimitStamp(r) ==
    /\ pc[r] = "stamp"
    /\ LAST_REQUEST_TIME' = stamp_time(r)
    /\ stampAt' = [stampAt EXCEPT ![r] = stamp_time(r)]
    /\ pc' = [pc EXCEPT ![r] = "call"]
    /\ UNCHANGED <<cfgvars, now, endpoint, body, readAt, seen, wake, callAt, sent,
                   resp, lastRead, count, apivars>>

\* a handler that goes back to rate_limit() when its outbound call failed
after_call_retry(result) ==
    IF result.raised \/ result.v = "" \/ Contains("Error: ", result.v)
                     \/ Contains("Rate limit exceeded", result.v)
    THEN "rate_limit"
    ELSE "done"

\* where a handler goes once its outbound call gave `result`: every branch of
\* chat (app.py:291-309) and of analyze_ip (app.py:361-383) returns a response
after_call(result) == "done"

\* chat after rate_limit(): the one provider call and the response, app.py:281-309
ChatCall(r, outcomes) ==
    /\ pc[r] = "call"
    /\ endpoint[r] = "chat"
    /\ \E o \in outcomes :
        /\ sent' = [sent EXCEPT ![r] = [kind |-> "direct", o |-> o, p |-> Ret(""),
                                        crew |-> NoCrew, ran |-> << >>]]
        /\ resp' = [resp EXCEPT ![r] = chat_respond(o)]
        /\ pc' = [pc EXCEPT ![r] = after_call(call_gemini_api(o))]
    /\ callAt' = [callAt EXCEPT ![r] = now]
    /\ count' = [count EXCEPT ![r].calls = @ + 1]
    /\ UNCHANGED <<cfgvars, LAST_REQUEST_TIME, now, endpoint, body, readAt, seen, wake,
                   stampAt, lastRead, apivars>>

\* analyze_ip after rate_limit(): the pipeline run and the response, app.py:339-383
AnalyzeRun(r, outcomes) ==
    /\ pc[r] = "call"
    /\ endpoint[r] = "analyze"
    /\ \E p \in outcomes :
        \E started \in Started(build_crew(LLM, body[r]), p) :
            /\ sent' = [sent EXCEPT ![r] =
                            [kind |-> "pipeline", o |-> Failure(""), p |-> p,
                             crew |-> build_crew(LLM, body[r]),
                             ran |-> kickoff(build_crew(LLM, body[r]), started)]]
            /\ resp' = [resp EXCEPT ![r] = analyze_respond(body[r], p)]
            /\ pc' = [pc EXCEPT ![r] = after_call(analyze_try(body[r], p))]
    /\ callAt' = [callAt EXCEPT ![r] = now]
    /\ count' = [count EXCEPT ![r].calls = @ + 1]
    /\ UNCHANGED <<cfgvars, LAST_REQUEST_TIME, now, endpoint, body, readAt, seen, wake,
                   stampAt, lastRead, apivars>>

\* the response is delivered and the thread ends; the slot is free again
Reply(r) ==
    /\ pc[r] = "done"
    /\ pc' = [pc EXCEPT ![r] = "new"]
    /\ endpoint' = [endpoint EXCEPT ![r] = ""]
    /\ body' = [body EXCEPT ![r] = EmptyBody]
    /\ readAt' = [readAt EXCEPT ![r] = 0]
    /\ seen' = [q \in Requests |-> IF q = r THEN {} ELSE seen[q] \ {r}]
    /\ wake' = [wake EXCEPT ![r] = 0]
    /\ stampAt' = [stampAt EXCEPT ![r] = 0]
    /\ callAt' = [callAt EXCEPT ![r] = 0]
    /\ sent' = [sent EXCEPT ![r] = NoSent]
    /\ resp' = [resp EXCEPT ![r] = NoResponse]
    /\ lastRead' = [lastRead EXCEPT ![r] = 0]
    /\ count' = [count EXCEPT ![r] = NoCount]
    /\ UNCHANGED <<cfgvars, LAST_REQUEST_TIME, now, apivars>>

\* the clock advances
Tick ==
    /\ now + TickStep <= MaxTime
    /\ now' = now + TickStep
    /\ UNCHANGED <<cfgvars, LAST_REQUEST_TIME, reqvars, apivars>>

\* no request is being handled
Quiet == \A q \in Requests : pc[q] = "new"

(* Spec: requests arrive one after the other (a client that waits for each *)
(* response), with every request body and every outcome of the outbound    *)
(* call.                                                                   *)
Next ==
    \/ \E r \in Requests : Quiet /\ ChatArrive(r, ChatBodies)
    \/ \E r \in Requests : Quiet /\ AnalyzeArrive(r, AnalyzeBodies)
    \/ \E r \in Requests : Quiet /\ Health(r)
    \/ \E r \in Requests : RateLimitRead(r)
    \/ \E r \in Requests : RateLimitWake(r)
    \/ \E r \in Requests : RateLimitStamp(r)
    \/ \E r \in Requests : ChatCall(r, ChatOutcomes)
    \/ \E r \in Requests : AnalyzeRun(r, PipelineOutcomes)
    \/ \E r \in Requests : Reply(r)
    \/ Tick

Spec == Init /\ [][Next]_vars

(* SpecThreads: requests arrive at any time and their threads interleave   *)
(* (Flask's development server handles each request in a thread of its     *)
(* own); one accepted and one rejected body per endpoint, and one outcome  *)
(* of the outbound call.                                                   *)
ThreadChatBodies == { Body({"message"}, {}), EmptyBody }
ThreadAnalyzeBodies == { Body(Range(required_fields), {}), EmptyBody }
ThreadChatOutcomes == { Answer(200, "text", "Patent first.") }
ThreadPipelineOutcomes == { Ret("IP strategy report") }

NextThreads ==
    \/ \E r \in Requests : ChatArrive(r, ThreadChatBodies)
    \/ \E r \in Requests : AnalyzeArrive(r, ThreadAnalyzeBodies)
    \/ \E r \in Requests : RateLimitRead(r)
    \/ \E r \in Requests : RateLimitWake(r)
    \/ \E r \in Requests : RateLimitStamp(r)
    \/ \E r \in Requests : ChatCall(r, ThreadChatOutcomes)
    \/ \E r \in Requests : AnalyzeRun(r, ThreadPipelineOutcomes)
    \/ \E r \in Requests : Reply(r)
    \/ Tick

SpecThreads == Init /\ [][NextThreads]_vars

(* SpecLive: the threads of SpecThreads with the scheduling that makes     *)
(* progress claims meaningful.  Requests arrive while the clock is below    *)
(* MaxTime; after that the clock goes on for as long as a thread sleeps, so *)
(* that every sleep can end.  The operating system runs every thread that   *)
(* can take a step (weak fairness of the steps of each thread), and time    *)
(* passes (weak fairness of the clock).                                     *)

\* the server still takes requests
Open == now + TickStep <= MaxTime

\* some thread is inside time.sleep and its time has not come
Sleeping == \E q \in Requests : pc[q] = "sleep" /\ now < wake[q]

\* the clock advances
TickLive ==
    /\ Open \/ Sleeping
    /\ now' = now + TickStep
    /\ UNCHANGED <<cfgvars, LAST_REQUEST_TIME, reqvars, apivars>>

\* the next step of the thread of request r after its validation
ThreadStep(r) ==
    \/ RateLimitRead(r)
    \/ RateLimitWake(r)
    \/ RateLimitStamp(r)
    \/ ChatCall(r, ThreadChatOutcomes)
    \/ AnalyzeRun(r, ThreadPipelineOutcomes)

NextLive ==
    \/ \E r \in Requests : Open /\ ChatArrive(r, ThreadChatBodies)
    \/ \E r \in Requests : Open /\ AnalyzeArrive(r, ThreadAnalyzeBodies)
    \/ \E r \in Requests : ThreadStep(r)
    \/ \E r \in Requests : Reply(r)
    \/ TickLive

SpecLive ==
    /\ Init
    /\ [][NextLive]_vars
    /\ \A r \in Requests : WF_vars(ThreadStep(r))
    /\ WF_vars(TickLive)

----------------------------------------------------------------------------
(* SpecApi: call_gemini_api, the alternate call_gemini_api and             *)
(* refine_output applied once to every outcome of the provider call.       *)

RawTexts == { "IP strategy report", "  IP strategy report\n", "" }

InitApi ==
    /\ CREWAI_AVAILABLE \in BOOLEAN
    /\ GEMINI_KEY \in Keys
    /\ LLM \in { init_llm(GEMINI_KEY, CREWAI_AVAILABLE, ok) : ok \in BOOLEAN }
    /\ LAST_REQUEST_TIME = 0
    /\ now = StartTime
    /\ pc = [r \in Requests |-> "new"]
    /\ endpoint = [r \in Requests |-> ""]
    /\ body = [r \in Requests |-> EmptyBody]
    /\ readAt = [r \in Requests |-> 0]
    /\ seen = [r \in Requests |-> {}]
    /\ wake = [r \in Requests |-> 0]
    /\ stampAt = [r \in Requests |-> 0]
    /\ callAt = [r \in Requests |-> 0]
    /\ sent = [r \in Requests |-> NoSent]
    /\ resp = [r \in Requests |-> NoResponse]
    /\ lastRead = [r \in Requests |-> 0]
    /\ count = [r \in Requests |-> NoCount]
    /\ api_fn = "none"
    /\ api_o \in Outcomes
    /\ api_raw \in RawTexts
    /\ api_ret = Ret("")

Apply(fn, result) ==
    /\ api_fn = "none"
    /\ api_fn' = fn
    /\ api_ret' = result
    /\ UNCHANGED <<cfgvars, LAST_REQUEST_TIME, now, reqvars, api_o, api_raw>>

ApplyCall == Apply("call_gemini_api", call_gemini_api(api_o))
ApplyCall2 == Apply("call_gemini_api_2", call_gemini_api_2(api_o))
ApplyRefine == Apply("refine_output", refine_output(GEMINI_KEY, api_raw, api_o))

NextApi == ApplyCall \/ ApplyCall2 \/ ApplyRefine

SpecApi == InitApi /\ [][NextApi]_vars

----------------------------------------------------------------------------
(* The claims.                                                             *)

\* request r has its response
Done(r) == pc[r] = "done"
\* request r made its outbound call (the provider call of /chat, the pipeline
\* run of /analyze)
Called(r) == pc[r] = "done" /\ sent[r].kind # "none"

\* the required fields a body lacks or holds empty, in the order of the list
MissingNames(data) ==
    SelectSeq(required_fields, LAMBDA f : f \notin DOMAIN data \/ data[f] = "")

\* C1: every /analyze request that lacks a required field, or holds it empty,
\* is answered 400 with an error that lists exactly the missing field names.
C1_MissingFieldsGet400 ==
    \A r \in Requests :
        (Done(r) /\ endpoint[r] = "analyze" /\ MissingNames(body[r]) # << >>)
        => /\ resp[r].status = 400
           /\ resp[r].text = "Missing fields: " \o Join(", ", MissingNames(body[r]))

\* the pipeline of request r raised an exception
PipelineRaised(r) ==
    Called(r) /\ sent[r].kind = "pipeline" /\ analyze_try(body[r], sent[r].p).raised

\* C2: when the agent pipeline raises and the provider key is configured,
\* /analyze still answers 200 success=true from the direct client, tagged
\* method = direct_api.
C2_PipelineExceptionFallsBack ==
    \A r \in Requests :
        (PipelineRaised(r) /\ Truthy(GEMINI_KEY))
        => /\ resp[r].status = 200
           /\ resp[r].success = PyTrue
           /\ resp[r].method = Some("direct_api")

\* the outbound call of request r was answered 429 by the provider: the direct
\* call got status 429, or the framework's exception reports the 429
Provider429(r) ==
    /\ Called(r)
    /\ \/ sent[r].kind = "direct" /\ ~sent[r].o.exc /\ sent[r].o.status = 429
       \/ PipelineRaised(r) /\ Contains("429", sent[r].p.v)

\* the response carries a quota-exceeded message
QuotaMessage(text) ==
    Contains("Rate limit exceeded", text) \/ Contains("quota exceeded", text)

\* C3: a request whose outbound call the provider answered with 429 surfaces
\* a quota-exceeded message and is never answered 200 with success=true.
C3_Provider429NeverSuccess ==
    \A r \in Requests :
        Provider429(r)
        => /\ QuotaMessage(resp[r].text)
           /\ ~(resp[r].status = 200 /\ resp[r].success = PyTrue)

\* C4 as stated: of two requests that reach the rate limiter less than
\* MIN_REQUEST_INTERVAL apart, the outbound call of the second does not start
\* before MIN_REQUEST_INTERVAL has elapsed since the stamp of the first.
C4_AnyPairDelayed ==
    \A t, u \in Requests :
        (/\ t # u
         /\ Called(t) /\ Called(u)
         /\ readAt[t] < readAt[u]
         /\ readAt[u] - readAt[t] < MIN_REQUEST_INTERVAL)
        => callAt[u] >= stampAt[t] + MIN_REQUEST_INTERVAL

\* C4 (amended): of two requests that reach the rate limiter less than
\* MIN_REQUEST_INTERVAL apart, the second reading LAST_REQUEST_TIME after the
\* first has stamped it, the outbound call of the second does not start before
\* MIN_REQUEST_INTERVAL has elapsed since the stamp of the first.
C4_SerialPairDelayed ==
    \A t, u \in Requests :
        (/\ t # u
         /\ Called(t) /\ Called(u)
         /\ t \in seen[u]
         /\ readAt[u] - readAt[t] < MIN_REQUEST_INTERVAL)
        => callAt[u] >= stampAt[t] + MIN_REQUEST_INTERVAL

\* C4 witness: a second request arrived within the interval after the first
\* had stamped, slept, and made its call
C4_Witness ==
    \E t, u \in Requests :
        /\ t # u
        /\ Called(t) /\ Called(u)
        /\ t \in seen[u]
        /\ readAt[u] - readAt[t] < MIN_REQUEST_INTERVAL
        /\ wake[u] > readAt[u]
        /\ callAt[u] >= stampAt[t] + MIN_REQUEST_INTERVAL

ANALYZE_UNAVAILABLE ==
    "AI system not available. Please check your configuration "
    \o "and API quota at https://ai.dev/usage"

\* C5: with the pipeline unavailable (crewai import failed or LLM is None), a
\* valid /analyze request is answered from the direct client, not rejected.
C5_UnavailableSkipsToDirect ==
    \A r \in Requests :
        (/\ Done(r) /\ endpoint[r] = "analyze"
         /\ (~CREWAI_AVAILABLE \/ ~LLM)
         /\ MissingNames(body[r]) = << >>)
        => /\ sent[r].kind = "direct"
           /\ resp[r].text # ANALYZE_UNAVAILABLE

\* the ways the refinement call can fail: 429, another non-200 status, an
\* exception of the transport, or an empty result
RefineCallFailed(o) ==
    \/ o.exc
    \/ o.status # 200
    \/ (o.status = 200 /\ o.shape = "text" /\ o.text = "")

\* C6: whenever its provider call fails, refine_output returns the original
\* text stripped, never the error string of the failed call.
C6_RefineFailureReturnsRaw ==
    (/\ api_fn = "refine_output"
     /\ Truthy(GEMINI_KEY)
     /\ RefineCallFailed(api_o))
    => api_ret = Ret(Strip(api_raw))

\* C7: call_gemini_api returns a string for every outcome of the provider
\* call; no exception passes its boundary.
C7_CallNeverRaises ==
    api_fn = "call_gemini_api" => ~api_ret.raised

\* C7 witness: the call was applied to an outcome that raises inside the try
\* block (transport exception, malformed 200 body, non-JSON error body)
C7_Witness ==
    /\ api_fn = "call_gemini_api"
    /\ CallGeminiTry(api_o).raised
    /\ ~api_ret.raised

\* the provider's error.message, or "Unknown error" when absent
ErrorMessage(o) == IF o.shape = "message" THEN o.text ELSE "Unknown error"

WellFormed(o) ==
    \/ o.status = 200 /\ o.shape = "text"
    \/ o.status = 429
    \/ o.status \notin {200, 429} /\ o.shape # "nojson"

\* the exception text Python gives for the body of answer o
BodyErrorText(o) == IF o.shape = "nojson" THEN JSON_ERROR ELSE KEY_ERROR

C9_ChatResponse ==
    \A r \in Requests :
        (/\ Done(r) /\ endpoint[r] = "chat"
         /\ Truthy(GEMINI_KEY)
         /\ GetOr(body[r], "message", "") # "")
        => /\ sent[r].kind = "direct"
           /\ (/\ ~sent[r].o.exc /\ sent[r].o.status = 200
               /\ sent[r].o.shape = "text" /\ sent[r].o.text # "")
                => resp[r] = Response(200, PyTrue, "response", sent[r].o.text,
                                      Some(MODEL_NAME))
           /\ call_gemini_api(sent[r].o) = Ret("")
                => (resp[r].status = 500 /\ resp[r].success = PyFalse)

\* C9 witness: an accepted /chat request whose provider call returned a
\* non-empty text and was answered 200 with it
C9_Witness ==
    \E r \in Requests :
        /\ Done(r) /\ endpoint[r] = "chat"
        /\ Truthy(GEMINI_KEY)
        /\ GetOr(body[r], "message", "") # ""
        /\ sent[r].kind = "direct"
        /\ sent[r].o.status = 200 /\ sent[r].o.text # ""
        /\ resp[r].status = 200 /\ resp[r].text = sent[r].o.text

\* the pipeline exception of request r is a quota error
QuotaFailure(r) ==
    PipelineRaised(r) /\ IsQuotaError(analyze_try(body[r], sent[r].p).v)

\* C10: every /analyze response has status 200, 400, 429 or 500: 400 exactly
\* for missing fields, 429 exactly for a quota failure of the pipeline, 500 for
\* every other failure with the first 200 characters of the exception text,
\* and 200 with success=true otherwise.
C10_AnalyzeStatuses ==
    \A r \in Requests :
        (Done(r) /\ endpoint[r] = "analyze")
        => /\ resp[r].status \in {200, 400, 429, 500}
           /\ resp[r].status = 400 <=> MissingNames(body[r]) # << >>
           /\ resp[r].status = 429 <=> QuotaFailure(r)
           /\ resp[r].status = 500
                => /\ PipelineRaised(r)
                   /\ resp[r].text = "Analysis failed: "
                        \o Prefix(analyze_try(body[r], sent[r].p).v, ERROR_CUT)
           /\ resp[r].status = 200 => resp[r].success = PyTrue

\* the speciality of an agent, read from its role
Speciality(agent) ==
    IF Contains("Patent", agent.role) THEN "patent"
    ELSE IF Contains("Trademark", agent.role) THEN "trademark"
    ELSE IF Contains("Valuation", agent.role) THEN "valuation"
    ELSE "other"

\* the subject of a task, read from the heading of its prompt
Subject(task) ==
    IF Contains("PATENT", task.heading) THEN "patent"
    ELSE IF Contains("TRADEMARK", task.heading) THEN "trademark"
    ELSE IF Contains("IP VALUE", task.heading) THEN "valuation"
    ELSE "other"

PipelineOrder == << "patent", "trademark", "valuation" >>

\* request r ran the agent pipeline
RanPipeline(r) == Called(r) /\ sent[r].kind = "pipeline"

\* C11: the pipeline that /analyze runs has exactly three agents (patent,
\* trademark, valuation) that share the one LLM handle, each with delegation
\* disabled and at most MAX_ITER iterations, and exactly three tasks, the i-th
\* bound to the i-th agent; the process is sequential and the tasks that were
\* started are a prefix of patent, trademark, valuation.
C11_PipelineStructure ==
    \A r \in Requests :
        RanPipeline(r)
        => LET crew == sent[r].crew
               ran == sent[r].ran
           IN  /\ Len(crew.agents) = 3
               /\ Len(crew.tasks) = 3
               /\ [i \in 1..3 |-> Speciality(crew.agents[i])] = PipelineOrder
               /\ [i \in 1..3 |-> Subject(crew.tasks[i])] = PipelineOrder
               /\ \A i \in 1..3 :
                    /\ crew.agents[i].llm = LLM
                    /\ ~crew.agents[i].allow_delegation
                    /\ crew.agents[i].max_iter <= MAX_ITER
                    /\ crew.tasks[i].agent = crew.agents[i]
               /\ crew.process = "sequential"
               /\ Len(ran) <= 3
               /\ [i \in 1..Len(ran) |-> Subject(ran[i])] = SubSeq(PipelineOrder, 1, Len(ran))
               /\ ~sent[r].p.raised => Len(ran) = 3

\* C11 witness: a pipeline run that returned after all three tasks
C11_Witness ==
    \E r \in Requests :
        /\ RanPipeline(r)
        /\ ~sent[r].p.raised
        /\ Len(sent[r].ran) = 3
        /\ resp[r].status = 200

\* the rate_limit() calls of t and u overlapped on the same stale timestamp:
\* both read the same LAST_REQUEST_TIME and neither read the other's stamp
SameStaleRead(t, u) ==
    /\ t # u
    /\ count[t].limits = 1 /\ count[u].limits = 1
    /\ lastRead[t] = lastRead[u]
    /\ t \notin seen[u] /\ u \notin seen[t]

\* C12: rate_limit() gives no mutual exclusion.  What it makes a request wait
\* is decided by the timestamp the request read and by nothing else: two
\* requests that read the same stale LAST_REQUEST_TIME are never kept apart,
\* each passes as soon as MIN_REQUEST_INTERVAL has elapsed since that value,
\* and two that sleep wake at the same time.  (That such a pair issues its
\* calls less than MIN_REQUEST_INTERVAL apart is the state C12_Witness.)
C12_StaleReadersNotKeptApart ==
    \A t, u \in Requests :
        SameStaleRead(t, u)
        => /\ count[u].sleeps = 1 => wake[u] = lastRead[u] + MIN_REQUEST_INTERVAL
           /\ count[u].sleeps = 0 => readAt[u] >= lastRead[u] + MIN_REQUEST_INTERVAL
           /\ (count[t].sleeps = 1 /\ count[u].sleeps = 1) => wake[t] = wake[u]

\* C12 witness: two requests read the same stale LAST_REQUEST_TIME, both
\* passed without sleeping, and both made their outbound calls less than
\* MIN_REQUEST_INTERVAL apart
C12_Witness ==
    \E t, u \in Requests :
        /\ SameStaleRead(t, u)
        /\ Called(t) /\ Called(u)
        /\ count[t].sleeps = 0 /\ count[u].sleeps = 0
        /\ callAt[t] <= callAt[u]
        /\ callAt[u] - callAt[t] < MIN_REQUEST_INTERVAL

\* request r is one the handler has to reject before the rate-limit step
MustReject(r) ==
    \/ /\ endpoint[r] = "chat"
       /\ (~Truthy(GEMINI_KEY) \/ Get(body[r], "message") \in {None, Some("")})
    \/ /\ endpoint[r] = "analyze"
       /\ (~CREWAI_AVAILABLE \/ ~LLM \/ MissingNames(body[r]) # << >>)

\* a request that has to be rejected is answered 400 or 500 at once and has
\* called neither rate_limit() nor the provider nor the pipeline
RejectedDidNothing ==
    \A r \in Requests :
        MustReject(r)
        => /\ pc[r] = "done"
           /\ resp[r].status \in {400, 500}
           /\ sent[r] = NoSent
           /\ count[r] = NoCount
           /\ stampAt[r] = 0

\* an accepted request goes validate, rate_limit(), outbound call: nothing is
\* called before validation ended, and the call follows the stamp of its own
\* rate_limit()
AcceptedInOrder ==
    \A r \in Requests :
        /\ pc[r] = "rate_limit" => count[r] = NoCount
        /\ pc[r] \in {"sleep", "stamp", "call"}
            => (count[r].limits = 1 /\ count[r].calls = 0 /\ sent[r] = NoSent)
        /\ count[r].calls > 0
            => /\ count[r].limits = 1
               /\ readAt[r] <= stampAt[r]
               /\ stampAt[r] <= callAt[r]

\* the step that rejects a request leaves LAST_REQUEST_TIME alone
RejectionKeepsTimestamp ==
    \A r \in Requests :
        (pc[r] = "new" /\ pc'[r] = "done") => LAST_REQUEST_TIME' = LAST_REQUEST_TIME

\* C13: a request rejected before the rate-limit step (/chat without key or
\* with an empty or absent message, /analyze with the pipeline unavailable or
\* with missing fields) leaves LAST_REQUEST_TIME unchanged and issues no
\* outbound call; an accepted request validates, then calls rate_limit(), then
\* makes its outbound call.
C13_RejectedNoSideEffects ==
    /\ [](RejectedDidNothing /\ AcceptedInOrder)
    /\ [][RejectionKeepsTimestamp]_vars

\* C13 witness: a request has just been rejected after an earlier request had
\* stamped LAST_REQUEST_TIME, and the stamp is still there
C13_Witness ==
    \E r \in Requests :
        /\ MustReject(r)
        /\ pc[r] = "done"
        /\ sent[r] = NoSent
        /\ LAST_REQUEST_TIME >= StartTime

\* the outbound call of request r failed: the provider answered 429 or another
\* error, the call timed out, or the pipeline raised
CallFailed(r) ==
    \/ sent[r].kind = "direct" /\ (sent[r].o.exc \/ sent[r].o.status # 200)
    \/ sent[r].kind = "pipeline" /\ analyze_try(body[r], sent[r].p).raised

\* C14: no request calls rate_limit() more than once or makes more than one
\* outbound call (provider call of /chat, pipeline run of /analyze); a request
\* whose one call was made has its response, whatever the call met.
C14_NoRetry ==
    \A r \in Requests :
        /\ count[r].limits <= 1
        /\ count[r].calls <= 1
        /\ count[r].calls = 1 => (pc[r] = "done" /\ count[r].limits = 1)

\* C14 witness: a request whose one outbound call failed has its response
\* after one rate_limit() and one call
C14_Witness ==
    \E r \in Requests :
        /\ Called(r)
        /\ CallFailed(r)
        /\ count[r].limits = 1 /\ count[r].calls = 1
        /\ resp[r].status # 0

\* C15: with a clock that never runs backwards, no step decreases
\* LAST_REQUEST_TIME, however the rate_limit() calls interleave: every write
\* stores a value at least as large as the one it replaces.
C15_TimestampNeverDecreases ==
    [][LAST_REQUEST_TIME' >= LAST_REQUEST_TIME]_vars

\* C15 witness: two overlapping rate_limit() calls have both written, the
\* later write over the earlier one
C15_Witness ==
    \E t, u \in Requests :
        /\ t # u
        /\ Stamped(t) /\ Stamped(u)
        /\ t \notin seen[u] /\ u \notin seen[t]
        /\ stampAt[t] < stampAt[u]
        /\ LAST_REQUEST_TIME = stampAt[u]

\* request r is inside rate_limit()
InRateLimit(r) == pc[r] \in {"rate_limit", "sleep", "stamp"}

\* rate_limit() sleeps at most once, for more than nothing and for at most
\* MIN_REQUEST_INTERVAL
OneShortSleep ==
    \A r \in Requests :
        /\ count[r].sleeps <= 1
        /\ count[r].sleeps = 1
            => (readAt[r] < wake[r] /\ wake[r] <= readAt[r] + MIN_REQUEST_INTERVAL)

\* C16: every rate_limit() call sleeps at most once and for at most
\* MIN_REQUEST_INTERVAL, and returns, whatever other requests wait or arrive;
\* every accepted request reaches its outbound call.
C16_RateLimitTerminates ==
    /\ []OneShortSleep
    /\ \A r \in Requests : InRateLimit(r) ~> Called(r)

\* C16 witness: a request that slept in rate_limit() while another request
\* was in flight has made its outbound call
C16_Witness ==
    \E r, q \in Requests :
        /\ r # q
        /\ Called(r)
        /\ count[r].sleeps = 1
        /\ pc[q] # "new"

\* validation of /analyze request r has passed
Validated(r) ==
    /\ endpoint[r] = "analyze"
    /\ pc[r] \in {"rate_limit", "sleep", "stamp", "call"} \/ Called(r)

\* C17: every key create_tasks reads is a required field, and once validation
\* has passed each of them is present and non-empty in the body, so that
\* create_tasks raises no KeyError and the crew is built.
C17_TaskKeysValidated ==
    /\ Range(TaskKeys) \subseteq Range(required_fields)
    /\ \A r \in Requests :
        Validated(r)
        => /\ \A i \in DOMAIN TaskKeys : Truthy(Get(body[r], TaskKeys[i]))
           /\ ~create_tasks(body[r]).raised
           /\ RanPipeline(r) => sent[r].crew # NoCrew

\* C17 witness: a validated /analyze request whose prompts were built from
\* the four keys and whose pipeline ran
C17_Witness ==
    \E r \in Requests :
        /\ Validated(r)
        /\ RanPipeline(r)
        /\ create_tasks(body[r]) = Ret("")
        /\ Len(sent[r].crew.tasks) = 3

\* a provider key is configured: GOOGLE_API_KEY is set and starts with "AIza"
KeyConfigured == Truthy(GEMINI_KEY) /\ StartsWith(GEMINI_KEY[1], "AIza")

\* LLM is set only with a configured key and with crewai imported; the
\* pipeline runs, and /health reports llm_available, only then
LLMOnlyWhenConfigured ==
    /\ LLM => (KeyConfigured /\ CREWAI_AVAILABLE)
    /\ \A r \in Requests :
        /\ RanPipeline(r) => (LLM /\ KeyConfigured)
        /\ (Done(r) /\ endpoint[r] = "health")
            => /\ resp[r].llm_available = LLM
               /\ resp[r].crewai_available = CREWAI_AVAILABLE
               /\ resp[r].model = MODEL_NAME
               /\ resp[r].llm_available => (KeyConfigured /\ CREWAI_AVAILABLE)

\* C18: after start-up LLM is not None only if GOOGLE_API_KEY is set, starts
\* with "AIza" and crewai was imported; /analyze runs the pipeline and /health
\* reports llm_available = true only then; no handler changes LLM or
\* CREWAI_AVAILABLE (MODEL_NAME is a constant of the module).
C18_LLMOnlyWhenConfigured ==
    /\ []LLMOnlyWhenConfigured
    /\ [][UNCHANGED <<LLM, CREWAI_AVAILABLE, GEMINI_KEY>>]_vars

\* C18 witness: /health has reported llm_available = true
C18_Witness ==
    \E r \in Requests :
        /\ Done(r) /\ endpoint[r] = "health"
        /\ resp[r].llm_available
        /\ KeyConfigured

====
